---- MODULE Spec2Model ----
(***************************************************************************)
(* Model of src/app.py: the invoice field extractor (parse_text), the two  *)
(* payload encoders (generate_pay_by_square, generate_qr_platba) and the   *)
(* Streamlit script that wires them to the upload widget and the payment   *)
(* form.                                                                   *)
(*                                                                         *)
(* Strings are sequences of characters.  A character is a one-character    *)
(* TLA+ string; the four non-ASCII characters the source names are written *)
(* "euro" (the euro sign), "c_caron" / "C_CARON" (c with caron, lower and  *)
(* upper case) and "y_acute" / "Y_ACUTE" (y with acute).                   *)
(***************************************************************************)
EXTENDS Integers, Sequences, FiniteSets, TLC

VARIABLES
    text,           \* parse_text's argument                    (extractor harness)
    fields,         \* <<parse_text's return value>>, <<>> before the call
    encIn,          \* generate_qr_platba's arguments           (encoder harness)
    encOut,         \* <<generate_qr_platba's return value>>, <<>> before the call
    uploaded_file,  \* st.file_uploader's value: <<>> (None) or <<document>>
    session_state,  \* st.session_state: iban, amount, currency, vs
    country,        \* the radio's selection: 0 (Slovak invoice) or 1 (Czech invoice)
    run,            \* what the latest run of the script did
    extract_runs,   \* parse_text calls since the file in the uploader was chosen
    last_doc,       \* <<document>> the upload block processed most recently
    before_upload   \* st.session_state as the latest upload found it

harness == <<text, fields, encIn, encOut>>
ui == <<uploaded_file, session_state, country, run, extract_runs, last_doc, before_upload>>
vars == <<harness, ui>>


(***************************************************************************)
(* Characters and character classes of Python's re module and str methods. *)
(***************************************************************************)
LowerLetters ==
    <<"a", "b", "c", "d", "e", "f", "g", "h", "i", "j", "k", "l", "m",
      "n", "o", "p", "q", "r", "s", "t", "u", "v", "w", "x", "y", "z",
      "c_caron", "y_acute">>

UpperLetters ==
    <<"A", "B", "C", "D", "E", "F", "G", "H", "I", "J", "K", "L", "M",
      "N", "O", "P", "Q", "R", "S", "T", "U", "V", "W", "X", "Y", "Z",
      "C_CARON", "Y_ACUTE">>

Range(s) == {s[i] : i \in 1..Len(s)}

\* \d
Digit == {"0", "1", "2", "3", "4", "5", "6", "7", "8", "9"}

\* \s, and the characters str.strip() removes
Space == {" ", "\t", "\n", "\r", "\f"}

\* \w
Word == Range(LowerLetters) \cup Range(UpperLetters) \cup Digit \cup {"_"}

\* str.upper() on one character
UpperChar(c) ==
    IF c \in Range(LowerLetters)
    THEN UpperLetters[CHOOSE i \in 1..Len(LowerLetters) : LowerLetters[i] = c]
    ELSE c

\* the inverse mapping, used to build case-insensitive classes
LowerChar(c) ==
    IF c \in Range(UpperLetters)
    THEN LowerLetters[CHOOSE i \in 1..Len(UpperLetters) : UpperLetters[i] = c]
    ELSE c

\* str.upper()
Upper(s) == [i \in 1..Len(s) |-> UpperChar(s[i])]

\* needle in s
Contains(s, needle) ==
    \E p \in 1..(Len(s) - Len(needle) + 1) :
        SubSeq(s, p, p + Len(needle) - 1) = needle

\* s.startswith(prefix)
StartsWith(s, prefix) ==
    /\ Len(s) >= Len(prefix)
    /\ SubSeq(s, 1, Len(prefix)) = prefix

\* s.replace(c, "") for a one-character c
RemoveChar(s, c) == SelectSeq(s, LAMBDA x : x # c)

\* s.replace(c, d) for one-character c and d
ReplaceChar(s, c, d) == [i \in 1..Len(s) |-> IF s[i] = c THEN d ELSE s[i]]

RECURSIVE LStrip(_)
LStrip(s) == IF Len(s) > 0 /\ Head(s) \in Space THEN LStrip(Tail(s)) ELSE s

RECURSIVE RStrip(_)
RStrip(s) ==
    IF Len(s) > 0 /\ s[Len(s)] \in Space THEN RStrip(SubSeq(s, 1, Len(s) - 1)) ELSE s

\* s.strip(): s without its leading and trailing whitespace
Strip(s) == RStrip(LStrip(s))

(***************************************************************************)
(* The fragment of Python's regular expressions that parse_text uses, as a *)
(* backtracking matcher.  A pattern is a sequence of items:                *)
(*   cls  - a character class with a greedy repetition {lo,hi}             *)
(*          (hi = -1: unbounded)                                           *)
(*   alt  - an ordered alternation of patterns, tried left to right        *)
(*   mark - the opening or closing parenthesis of a capturing group        *)
(*   wb   - the zero-width word boundary \b                                *)
(* A match is the sequence of <<mark, position>> pairs the matcher passed, *)
(* ended by the end position; NoMatch (the empty sequence) is None.        *)
(***************************************************************************)
NoMatch == <<>>

Cls(S, lo, hi) == [kind |-> "cls", set |-> S, lo |-> lo, hi |-> hi]
Lit(c) == Cls({c}, 1, 1)
Opt(S) == Cls(S, 0, 1)
Star(S) == Cls(S, 0, -1)
Alt(alts) == [kind |-> "alt", alts |-> alts]
Mark(tag) == [kind |-> "mark", tag |-> tag]
WordB == [kind |-> "wb"]

\* a literal string, case-sensitively
Lits(s) == [i \in 1..Len(s) |-> Lit(s[i])]

\* a class under re.IGNORECASE
ICase(S) == S \cup {UpperChar(c) : c \in S} \cup {LowerChar(c) : c \in S}

\* a literal string under re.IGNORECASE
ILits(s) == [i \in 1..Len(s) |-> Cls(ICase({s[i]}), 1, 1)]

\* the longest run of class characters at pos, capped at hi, counted from n on
RECURSIVE RunFrom(_, _, _, _, _)
RunFrom(S, hi, txt, pos, n) ==
    IF /\ (hi < 0 \/ n < hi)
       /\ pos + n <= Len(txt)
       /\ txt[pos + n] \in S
    THEN RunFrom(S, hi, txt, pos, n + 1)
    ELSE n

RunLength(S, hi, txt, pos) == RunFrom(S, hi, txt, pos, 0)

IsWordAt(txt, pos) == pos >= 1 /\ pos <= Len(txt) /\ txt[pos] \in Word

\* \b at pos: exactly one of the characters before and at pos is a word character
AtWordBoundary(txt, pos) == IsWordAt(txt, pos - 1) # IsWordAt(txt, pos)

RECURSIVE MatchHere(_, _, _)
RECURSIVE TryCount(_, _, _, _, _)
RECURSIVE TryAlts(_, _, _, _)

\* re's matching of pattern re at position pos of txt
MatchHere(re, txt, pos) ==
    IF Len(re) = 0 THEN << <<<<"end", 0>>, pos>> >>
    ELSE LET it   == Head(re)
             rest == Tail(re)
         IN  CASE it.kind = "mark" ->
                    LET r == MatchHere(rest, txt, pos)
                    IN  IF r = NoMatch THEN NoMatch ELSE << <<it.tag, pos>> >> \o r
               [] it.kind = "wb" ->
                    IF AtWordBoundary(txt, pos) THEN MatchHere(rest, txt, pos)
                    ELSE NoMatch
               [] it.kind = "cls" ->
                    TryCount(it, rest, txt, pos, RunLength(it.set, it.hi, txt, pos))
               [] it.kind = "alt" ->
                    TryAlts(it.alts, rest, txt, pos)

\* a greedy repetition: the longest count first, then one fewer
TryCount(it, rest, txt, pos, n) ==
    IF n < it.lo THEN NoMatch
    ELSE LET r == MatchHere(rest, txt, pos + n)
         IN  IF r # NoMatch THEN r ELSE TryCount(it, rest, txt, pos, n - 1)

\* an alternation: the first alternative that lets the rest match
TryAlts(alts, rest, txt, pos) ==
    IF Len(alts) = 0 THEN NoMatch
    ELSE LET r == MatchHere(Head(alts) \o rest, txt, pos)
         IN  IF r # NoMatch THEN r ELSE TryAlts(Tail(alts), rest, txt, pos)

\* re.search(re, txt): the match at the leftmost position that has one
Search(re, txt) ==
    LET starts == {s \in 1..(Len(txt) + 1) : MatchHere(re, txt, s) # NoMatch}
    IN  IF starts = {} THEN NoMatch
        ELSE MatchHere(re, txt, CHOOSE s \in starts : \A t \in starts : s <= t)

MarkPos(m, tag) == m[CHOOSE i \in 1..Len(m) : m[i][1] = tag][2]

\* match.group(g)
Group(m, txt, g) ==
    SubSeq(txt, MarkPos(m, <<"open", g>>), MarkPos(m, <<"close", g>>) - 1)

Cap(g, re) == <<Mark(<<"open", g>>)>> \o re \o <<Mark(<<"close", g>>)>>

(***************************************************************************)
(* Amounts.  A Python float that holds a decimal amount is modelled by its *)
(* decimal digits: a sign, the integer digits without leading zeros and    *)
(* three fractional digits.  The amounts of the program have at most ten   *)
(* integer digits (the pattern's \d{1,10}) and the form's number input     *)
(* steps by 0.01, so a double holds each of them to the digit.             *)
(***************************************************************************)
RECURSIVE StripZeros(_)
StripZeros(ds) ==
    IF Len(ds) > 1 /\ Head(ds) = "0" THEN StripZeros(Tail(ds)) ELSE ds

PadFrac(ds) ==
    IF Len(ds) >= 3 THEN SubSeq(ds, 1, 3)
    ELSE ds \o [i \in 1..(3 - Len(ds)) |-> "0"]

Amt(neg, int, frac) == [neg |-> neg, int |-> int, frac |-> frac]

\* 0.0
ZeroAmount == Amt(FALSE, <<"0">>, <<"0", "0", "0">>)

\* float(s) for s of the form digits "." digits
Float(s) ==
    LET dot == CHOOSE i \in 1..Len(s) : s[i] = "."
    IN  Amt(FALSE, StripZeros(SubSeq(s, 1, dot - 1)),
            PadFrac(SubSeq(s, dot + 1, Len(s))))

\* amount > 0
Positive(a) == ~a.neg /\ (a.int # <<"0">> \/ a.frac # <<"0", "0", "0">>)

\* amount < 0
Negative(a) == a.neg /\ (a.int # <<"0">> \/ a.frac # <<"0", "0", "0">>)

(***************************************************************************)
(* The patterns of parse_text.                                             *)
(***************************************************************************)
\* the text constants of the source
EUR == <<"E", "U", "R">>
CZK == <<"C", "Z", "K">>
KC == <<"K", "c_caron">>
KC_UPPER == <<"K", "C_CARON">>
SK == <<"S", "K">>
CZ == <<"C", "Z">>

\* XX[0-9]{2}\s?[0-9]{4}\s?[0-9]{4}\s?[0-9]{4}\s?[0-9]{4}\s?[0-9]{4}
IbanAlt(prefix) ==
    Lits(prefix) \o <<Cls(Digit, 2, 2),
        Opt(Space), Cls(Digit, 4, 4), Opt(Space), Cls(Digit, 4, 4),
        Opt(Space), Cls(Digit, 4, 4), Opt(Space), Cls(Digit, 4, 4),
        Opt(Space), Cls(Digit, 4, 4)>>

\* line 58
IBAN_RE == Cap(1, <<Alt(<<IbanAlt(SK), IbanAlt(CZ)>>)>>)

\* \d{1,10}[,.]\d{2}
NUMBER_RE == <<Cls(Digit, 1, 10), Cls({",", "."}, 1, 1), Cls(Digit, 2, 2)>>

\* EUR|euro sign|Kc|CZK under re.IGNORECASE
MARKER_RE == <<Alt(<<ILits(EUR), ILits(<<"euro">>), ILits(KC), ILits(CZK)>>)>>

\* line 62
AMOUNT_RE == Cap(1, NUMBER_RE) \o <<Opt(Space)>> \o Cap(2, MARKER_RE)

\* line 64
AMOUNT_REV_RE == Cap(1, MARKER_RE) \o <<Opt(Space)>> \o Cap(2, NUMBER_RE)

\* line 80: (VS|Variabiln[y y-acute] symbol):?\s*(\d{1,10}) under re.IGNORECASE
VS_RE ==
    Cap(1, <<Alt(<<ILits(<<"V", "S">>),
                   ILits(<<"V", "a", "r", "i", "a", "b", "i", "l", "n">>)
                   \o <<Cls(ICase({"y", "y_acute"}), 1, 1)>>
                   \o ILits(<<" ", "s", "y", "m", "b", "o", "l">>)>>)>>)
    \o <<Opt({":"}), Star(Space)>> \o Cap(2, <<Cls(Digit, 1, 10)>>)

\* line 84: \b(\d{10})\b
VS10_RE == <<WordB>> \o Cap(1, <<Cls(Digit, 10, 10)>>) \o <<WordB>>

(***************************************************************************)
(* parse_text, lines 56-87.                                                *)
(***************************************************************************)
\* lines 58-59
ParseIban(txt) ==
    LET iban_match == Search(IBAN_RE, txt)
    IN  IF iban_match # NoMatch
        THEN RemoveChar(Group(iban_match, txt, 1), " ")
        ELSE <<>>

\* the two searches of lines 62-64 in the other order
AmountStr_ReverseFirst(txt) ==
    LET rev_match == Search(AMOUNT_REV_RE, txt)
    IN  IF rev_match = NoMatch
        THEN LET amount_match == Search(AMOUNT_RE, txt)
             IN  IF amount_match # NoMatch THEN Group(amount_match, txt, 1) ELSE <<>>
        ELSE Group(rev_match, txt, 2)

\* lines 62-70
AmountStr(txt) ==
    LET amount_match == Search(AMOUNT_RE, txt)
    IN  IF amount_match = NoMatch
        THEN LET rev_match == Search(AMOUNT_REV_RE, txt)
             IN  IF rev_match # NoMatch THEN Group(rev_match, txt, 2) ELSE <<>>
        ELSE Group(amount_match, txt, 1)

\* line 72
ParseAmount(txt) ==
    LET amount_str == AmountStr(txt)
    IN  IF amount_str # <<>> THEN Float(ReplaceChar(amount_str, ",", "."))
        ELSE ZeroAmount

\* line 76 without its last disjunct
DetectCurrency_TextOnly(txt, iban) ==
    IF \/ Contains(Upper(txt), CZK)
       \/ Contains(Upper(txt), KC_UPPER)
    THEN CZK
    ELSE EUR

\* lines 75-77
DetectCurrency(txt, iban) ==
    IF \/ Contains(Upper(txt), CZK)
       \/ Contains(Upper(txt), KC_UPPER)
       \/ (iban # <<>> /\ StartsWith(iban, CZ))
    THEN CZK
    ELSE EUR

\* the two searches of lines 80-84 in the other order
ParseVs_FallbackFirst(txt) ==
    LET vs10_match == Search(VS10_RE, txt)
    IN  IF vs10_match # NoMatch
        THEN Group(vs10_match, txt, 1)
        ELSE LET vs_match == Search(VS_RE, txt)
             IN  IF vs_match # NoMatch THEN Group(vs_match, txt, 2) ELSE <<>>

\* lines 80-85
ParseVs(txt) ==
    LET vs_match == Search(VS_RE, txt)
        vs       == IF vs_match # NoMatch THEN Group(vs_match, txt, 2) ELSE <<>>
    IN  IF vs = <<>>
        THEN LET vs10_match == Search(VS10_RE, txt)
             IN  IF vs10_match # NoMatch THEN Group(vs10_match, txt, 1) ELSE <<>>
        ELSE vs

parse_text(txt) ==
    LET iban == ParseIban(txt)
    IN  [iban     |-> iban,
         amount   |-> ParseAmount(txt),
         currency |-> DetectCurrency(txt, iban),
         vs       |-> ParseVs(txt)]

(***************************************************************************)
(* generate_qr_platba, lines 103-114.                                      *)
(***************************************************************************)
DigitSeq == <<"0", "1", "2", "3", "4", "5", "6", "7", "8", "9">>

\* a decimal digit string plus one
RECURSIVE Increment(_)
Increment(ds) ==
    IF Len(ds) = 0 THEN <<"1">>
    ELSE LET last == ds[Len(ds)]
             init == SubSeq(ds, 1, Len(ds) - 1)
         IN  IF last = "9" THEN Increment(init) \o <<"0">>
             ELSE init \o <<DigitSeq[(CHOOSE i \in 1..9 : DigitSeq[i] = last) + 1]>>

\* f"{amount:.2f}": rounded to the nearest hundredth (an exact tie is decided by
\* the double's binary digits; no amount of the model is one)
Format2f(a) ==
    LET cents   == a.int \o SubSeq(a.frac, 1, 2)
        rounded == IF a.frac[3] \in {"5", "6", "7", "8", "9"}
                   THEN Increment(cents) ELSE cents
        n       == Len(rounded)
    IN  (IF a.neg THEN <<"-">> ELSE <<>>)
        \o SubSeq(rounded, 1, n - 2) \o <<".">> \o SubSeq(rounded, n - 1, n)

\* lines 103-114 with the test of line 106 removed: AM is always written
generate_qr_platba_AlwaysAmount(iban, amount, currency, vs, msg) ==
    LET s0 == <<"S", "P", "D", "*", "1", ".", "0", "*", "A", "C", "C", ":">>
              \o iban \o <<"*">>
        s1 == s0 \o <<"A", "M", ":">> \o Format2f(amount) \o <<"*">>
        s2 == IF currency # <<>>
              THEN s1 \o <<"C", "C", ":">> \o currency \o <<"*">> ELSE s1
        s3 == IF msg # <<>>
              THEN s2 \o <<"M", "S", "G", ":">> \o Upper(msg) \o <<"*">> ELSE s2
        s4 == IF vs # <<>>
              THEN s3 \o <<"X", "-", "V", "S", ":">> \o vs \o <<"*">> ELSE s3
    IN  s4

\* lines 103-114
generate_qr_platba(iban, amount, currency, vs, msg) ==
    LET s0 == <<"S", "P", "D", "*", "1", ".", "0", "*", "A", "C", "C", ":">>
              \o iban \o <<"*">>
        s1 == IF Positive(amount)
              THEN s0 \o <<"A", "M", ":">> \o Format2f(amount) \o <<"*">> ELSE s0
        s2 == IF currency # <<>>
              THEN s1 \o <<"C", "C", ":">> \o currency \o <<"*">> ELSE s1
        s3 == IF msg # <<>>
              THEN s2 \o <<"M", "S", "G", ":">> \o Upper(msg) \o <<"*">> ELSE s2
        s4 == IF vs # <<>>
              THEN s3 \o <<"X", "-", "V", "S", ":">> \o vs \o <<"*">> ELSE s3
    IN  s4

(***************************************************************************)
(* Inputs of the two harnesses.  A text is the concatenation of at most a  *)
(* bounded number of fragments of a pool.                                  *)
(***************************************************************************)
MaxIbanFrags == 3
MaxAmountFrags == 4
MaxCurrencyFrags == 3
MaxRefFrags == 4

RECURSIVE Flatten(_)
Flatten(ss) == IF Len(ss) = 0 THEN <<>> ELSE Head(ss) \o Flatten(Tail(ss))

TextsOver(pool, max) ==
    {Flatten(fs) : fs \in UNION {[1..n -> pool] : n \in 0..max}}

\* account identifiers, well formed and not, and noise
IbanFrags ==
    { <<"S", "K", "1", "2", " ", "3", "4", "5", "6", " ", "7", "8", "9",
        "0", " ", "1", "2", "3", "4", " ", "5", "6", "7", "8", " ", "9",
        "0", "1", "2">>,
      <<"S", "K", "1", "2", "3", "4", "5", "6", "7", "8", "9", "0", "1",
        "2", "3", "4", "5", "6", "7", "8", "9", "0", "1", "2">>,
      <<"C", "Z", "6", "5", "\n", "0", "8", "0", "0", "\n", "0", "0",
        "0", "0", "\n", "1", "9", "2", "0", "\n", "0", "0", "1", "4",
        "\n", "5", "3", "9", "9">>,
      <<"C", "Z", "6", "5", " ", "0", "8", "0", "0", " ", "0", "0", "0",
        "0", "\t", "1", "9", "2", "0", " ", "0", "0", "1", "4", " ", "5",
        "3", "9", "9">>,
      <<"S", "K", "1", "2", " ", "3", "4", "5", "6", " ", "7", "8", "9",
        "0", " ", "1", "2", "3", "4", " ", "5", "6", "7", "8", " ", "9",
        "0", "1">>,
      <<"x">>,
      <<" ">>,
      <<"7">> }

\* numbers, currency markers and noise
AmountFrags ==
    { <<"9", ",", "9", "0">>,
      <<"1", "2", ".", "5", "0">>,
      <<"E", "U", "R">>,
      <<"k", "C_CARON">>,
      <<" ">>,
      <<"x">>,
      <<"1", "2", "3", "4", "5", "6", "7", "8", "9", "0">> }

\* pieces of the region-B markers, identifiers, and an amount in euro
CurrencyFrags ==
    { <<"C">>,
      <<"z", "K">>,
      <<"k">>,
      <<"C_CARON">>,
      <<"E", "U", "R">>,
      <<"C", "Z", "6", "5", "0", "8", "0", "0", "0", "0", "0", "0", "1",
        "9", "2", "0", "0", "0", "1", "4", "5", "3", "9", "9">>,
      <<"S", "K", "1", "2", "3", "4", "5", "6", "7", "8", "9", "0", "1",
        "2", "3", "4", "5", "6", "7", "8", "9", "0", "1", "2">>,
      <<"9", ",", "9", "0", " ", "euro">> }

\* reference labels, digit runs and noise
RefFrags ==
    { <<"V", "S">>,
      <<"v", "s", ":">>,
      <<"V", "a", "r", "i", "a", "b", "i", "l", "n", "Y_ACUTE", " ", "s",
        "y", "m", "b", "o", "l">>,
      <<" ">>,
      <<"1", "2", "3">>,
      <<"1", "2", "3", "4", "5", "6", "7", "8", "9", "0">>,
      <<"x">> }

IbanTexts == TextsOver(IbanFrags, MaxIbanFrags)
AmountTexts == TextsOver(AmountFrags, MaxAmountFrags)
CurrencyTexts == TextsOver(CurrencyFrags, MaxCurrencyFrags)
RefTexts == TextsOver(RefFrags, MaxRefFrags)

(***************************************************************************)
(* The Streamlit script, lines 117-211.  Streamlit runs the script from    *)
(* top to bottom once when the page opens and once more for every event:   *)
(* a file chosen in or removed from the uploader, a click on the radio, a  *)
(* click on the form's submit button.  st.session_state and the widgets'   *)
(* values outlive a run; everything else is recomputed.                    *)
(*                                                                         *)
(* A document is what the external libraries make of the uploaded file:    *)
(* the pages process_file returns (none when the conversion raises) and,   *)
(* for each page, the text pytesseract returns or the fact that it raises. *)
(***************************************************************************)
MaxPages == 2
MaxReruns == 2

SkPage ==
    [ocr_ok |-> TRUE,
     text |-> <<"I", "B", "A", "N", ":", " ", "S", "K", "1", "2", " ", "3", "4", "5",
                "6", " ", "7", "8", "9", "0", " ", "1", "2", "3", "4", " ", "5", "6",
                "7", "8", " ", "9", "0", "1", "2", " ", "S", "u", "m", "a", " ", "1",
                "2", ",", "5", "0", " ", "E", "U", "R", " ", "V", "S", ":", " ", "1",
                "2", "3">>]

CzPage ==
    [ocr_ok |-> TRUE,
     text |-> <<"C", "Z", "6", "5", "0", "8", "0", "0", "0", "0", "0", "0", "1", "9",
                "2", "0", "0", "0", "1", "4", "5", "3", "9", "9", " ", "2", "5", "0",
                ",", "0", "0", " ", "K", "c_caron">>]

FailedPage == [ocr_ok |-> FALSE, text |-> <<>>]

Pages == {SkPage, CzPage, FailedPage}

Docs == {[images |-> ps] : ps \in UNION {[1..n -> Pages] : n \in 0..MaxPages}}

Msg(level, line) == [level |-> level, line |-> line]

\* lines 124-127 and 146-153
DefaultFields == [iban |-> <<>>, amount |-> ZeroAmount, currency |-> EUR, vs |-> <<>>]

\* lines 31-46: the pages, and the error of a failed conversion (line 39 for a
\* PDF, line 45 for an image; recorded as 39)
process_file(doc) ==
    [images |-> doc.images,
     msgs   |-> IF doc.images = <<>> THEN <<Msg("error", 39)>> ELSE <<>>]

\* lines 48-54
extract_text_from_image(image) ==
    [text |-> IF image.ocr_ok THEN image.text ELSE <<>>,
     msgs |-> IF image.ocr_ok THEN <<>> ELSE <<Msg("error", 53)>>]

\* lines 132-134: the loop over the pages
RECURSIVE ExtractAll(_)
ExtractAll(images) ==
    IF Len(images) = 0 THEN [text |-> <<>>, msgs |-> <<>>]
    ELSE LET first == extract_text_from_image(Head(images))
             rest  == ExtractAll(Tail(images))
         IN  [text |-> first.text \o <<"\n">> \o rest.text,
              msgs |-> first.msgs \o rest.msgs]

\* the texts the OCR loop can produce for the documents of the model
DocTexts == {ExtractAll(d.images).text : d \in Docs}

\* parse_text on each of them, computed once
ParsedText == [t \in DocTexts |-> parse_text(t)]

\* lines 128-142 without the reset of lines 124-127
UploadBlock_NoReset(doc, session) ==
    LET processed == process_file(doc)
        ocr       == ExtractAll(processed.images)
    IN  IF processed.images # <<>>
        THEN IF Strip(ocr.text) # <<>>
             THEN [session |-> ParsedText[ocr.text], parsed |-> 1,
                   msgs |-> processed.msgs \o ocr.msgs \o <<Msg("success", 138)>>]
             ELSE [session |-> session, parsed |-> 0,
                   msgs |-> processed.msgs \o ocr.msgs \o <<Msg("warning", 140)>>]
        ELSE [session |-> session, parsed |-> 0,
              msgs |-> processed.msgs \o <<Msg("error", 142)>>]

\* lines 123-142, for a file in the uploader: session is st.session_state
\* before the block; parse_text(full_text) is looked up in ParsedText
UploadBlock(doc, session) ==
    LET reset     == DefaultFields
        processed == process_file(doc)
        ocr       == ExtractAll(processed.images)
    IN  IF processed.images # <<>>
        THEN IF Strip(ocr.text) # <<>>
             THEN [session |-> ParsedText[ocr.text], parsed |-> 1,
                   msgs |-> processed.msgs \o ocr.msgs \o <<Msg("success", 138)>>]
             ELSE [session |-> reset, parsed |-> 0,
                   msgs |-> processed.msgs \o ocr.msgs \o <<Msg("warning", 140)>>]
        ELSE [session |-> reset, parsed |-> 0,
              msgs |-> processed.msgs \o <<Msg("error", 142)>>]

\* lines 121-153: the session state after the upload block and the defaults
\* (the keys are in st.session_state from the first run on)
AfterUpload(file, session) ==
    IF file # <<>>
    THEN UploadBlock(file[1], session)
    ELSE [session |-> session, parsed |-> 0, msgs |-> <<>>]

\* lines 156-158
default_country_index(session) ==
    IF session.iban # <<>> /\ StartsWith(session.iban, CZ) THEN 1 ELSE 0

\* lines 160-164: the radio keeps the user's selection while its index argument
\* is the one of the run before, and starts again from the new one otherwise
Radio(selection, old_session, new_session) ==
    IF default_country_index(new_session) = default_country_index(old_session)
    THEN selection
    ELSE default_country_index(new_session)

\* pay_by_square.generate is an external library: it returns a payload or raises.
\* The payload is opaque here; only that it is a non-empty string matters.
pay_by_square_generate(iban, amount, currency, vs, msg) ==
    <<"pay_by_square.generate:">> \o iban

\* lines 89-101: <<payload>>, or <<>> (None) and the error of line 100
generate_pay_by_square(iban, amount, currency, vs, msg, raises) ==
    IF raises
    THEN [value |-> <<>>, msgs |-> <<Msg("error", 100)>>]
    ELSE [value |-> <<pay_by_square_generate(iban, amount, currency, vs, msg)>>,
          msgs |-> <<>>]

\* lines 191-211: if qr_data: render it, else report
Render(qr_data) ==
    IF qr_data # <<>> /\ qr_data[1] # <<>>
    THEN [qr_image |-> qr_data, msgs |-> <<Msg("success", 209)>>]
    ELSE [qr_image |-> <<>>, msgs |-> <<Msg("error", 211)>>]

\* lines 180-183 and 191-211: Slovakia is selected
SlovakBranch(form, raises) ==
    LET warn == IF ~StartsWith(form.iban, SK)
                THEN <<Msg("warning", 182)>> ELSE <<>>
        enc  == generate_pay_by_square(form.iban, form.amount, form.currency,
                                       form.vs, form.msg, raises)
        out  == Render(enc.value)
    IN  [msgs |-> warn \o <<Msg("info", 183)>> \o enc.msgs \o out.msgs,
         calls |-> <<"generate_pay_by_square">>,
         qr_image |-> out.qr_image]

\* lines 185-189 and 191-211: Czechia is selected
CzechBranch(form) ==
    LET warn == IF ~StartsWith(form.iban, CZ)
                THEN <<Msg("warning", 187)>> ELSE <<>>
        data == generate_qr_platba(form.iban, form.amount, form.currency,
                                   form.vs, form.msg)
        out  == Render(<<data>>)
    IN  [msgs |-> warn \o <<Msg("info", 188)>> \o out.msgs,
         calls |-> <<"generate_qr_platba">>,
         qr_image |-> out.qr_image]

\* lines 175-211 without the test of line 176
SubmitHandler_NoIbanCheck(form, selection, raises) ==
    IF selection = 0 THEN SlovakBranch(form, raises) ELSE CzechBranch(form)

\* lines 175-211 with the encoder chosen by the identifier's prefix
SubmitHandler_ByPrefix(form, selection, raises) ==
    IF form.iban = <<>>
    THEN [msgs |-> <<Msg("error", 177)>>, calls |-> <<>>, qr_image |-> <<>>]
    ELSE IF StartsWith(form.iban, CZ) THEN CzechBranch(form)
    ELSE SlovakBranch(form, raises)

\* lines 175-211: the body of "if submitted", for the form's values, the radio's
\* selection and the outcome of the external Region A encoder
SubmitHandler(form, selection, raises) ==
    IF form.iban = <<>>
    THEN [msgs |-> <<Msg("error", 177)>>, calls |-> <<>>, qr_image |-> <<>>]
    ELSE IF selection = 0 THEN SlovakBranch(form, raises)
    ELSE CzechBranch(form)

NoForm == [iban |-> <<>>, amount |-> ZeroAmount, currency |-> EUR, vs |-> <<>>, msg |-> <<>>]

\* what a run leaves behind: the session state, the radio's selection and the
\* record of what the run did (handled is the submit handler's part of it)
RunOf(up, chosen, selection, submit, raises, handled) ==
    [session |-> up.session,
     parsed  |-> up.parsed,
     country |-> chosen,
     run     |-> [submitted   |-> submit # <<>>,
                  form        |-> IF submit # <<>> THEN submit[1] ELSE NoForm,
                  country     |-> chosen,
                  selected    |-> selection,
                  raised      |-> /\ submit # <<>>
                                  /\ raises
                                  /\ handled.calls = <<"generate_pay_by_square">>,
                  upload_msgs |-> up.msgs,
                  msgs        |-> handled.msgs,
                  calls       |-> handled.calls,
                  qr_image    |-> handled.qr_image]]

\* lines 166-211: the form; the handler runs only in the run a click on the
\* submit button triggered
PaymentForm(up, chosen, selection, submit, raises) ==
    RunOf(up, chosen, selection, submit, raises,
          IF submit # <<>>
          THEN SubmitHandler(submit[1], chosen, raises)
          ELSE [msgs |-> <<>>, calls |-> <<>>, qr_image |-> <<>>])

\* lines 155-211: the radio, then the form
CountryAndForm(up, session, selection, submit, raises) ==
    PaymentForm(up, Radio(selection, session, up.session), selection, submit, raises)

\* one run of the script: file is the uploader's value, session the session
\* state and selection the radio's value before the run, submit the
\* <<form values>> of a click on the submit button (<<>> otherwise), raises
\* whether pay_by_square.generate would raise
Script(file, session, selection, submit, raises) ==
    CountryAndForm(AfterUpload(file, session), session, selection, submit, raises)

(***************************************************************************)
(* The events.                                                             *)
(***************************************************************************)
\* what the user can have typed into the form: each field as seeded, or edited
FormIbans == {<<>>, <<"S", "K", "1", "2">>, <<"C", "Z", "6", "5">>, <<"D", "E", "8", "9">>}
FormAmounts == {Amt(FALSE, <<"2", "5", "0">>, <<"0", "0", "0">>)}
FormMsgs == {<<>>, <<"h", "i">>}

FormValues(session) ==
    [iban     : {session.iban} \cup FormIbans,
     amount   : {session.amount} \cup FormAmounts,
     currency : {session.currency},
     vs       : {session.vs},
     msg      : FormMsgs]

HarnessIdle == text = <<>> /\ fields = <<>> /\ encIn = <<>> /\ encOut = <<>>

\* the state after the page's first run: no file, the defaults of lines 146-153
UiInit ==
    /\ uploaded_file = <<>>
    /\ session_state = DefaultFields
    /\ country = 0
    /\ run = Script(<<>>, DefaultFields, 0, <<>>, FALSE).run
    /\ extract_runs = 0
    /\ last_doc = <<>>
    /\ before_upload = DefaultFields

Init == HarnessIdle /\ UiInit

\* the state after a run r
Commit(file, new_upload, r) ==
    /\ uploaded_file' = file
    /\ session_state' = r.session
    /\ country' = r.country
    /\ run' = r.run
    /\ extract_runs' = IF file = <<>> THEN 0
                       ELSE (IF new_upload THEN 0 ELSE extract_runs) + r.parsed
    /\ last_doc' = IF file # <<>> THEN file ELSE last_doc
    /\ before_upload' = IF new_upload THEN session_state ELSE before_upload
    /\ UNCHANGED harness

\* the run an event triggers
Rerun(file, selection, submit, raises, new_upload) ==
    Commit(file, new_upload, Script(file, session_state, selection, submit, raises))

\* the user chooses a file in the uploader
Upload ==
    \E d \in Docs : Rerun(<<d>>, country, <<>>, FALSE, TRUE)

\* the user removes the file from the uploader
Remove ==
    /\ uploaded_file # <<>>
    /\ Rerun(<<>>, country, <<>>, FALSE, FALSE)

\* the user clicks the other radio option
ChangeCountry ==
    /\ extract_runs < MaxReruns
    /\ Rerun(uploaded_file, 1 - country, <<>>, FALSE, FALSE)

\* the user clicks the submit button of the form
Submit ==
    /\ extract_runs < MaxReruns
    /\ \E form \in FormValues(session_state), raises \in BOOLEAN :
          Rerun(uploaded_file, country, <<form>>, raises, FALSE)

Next == Upload \/ Remove \/ ChangeCountry \/ Submit

Spec == Init /\ [][Next]_vars

(***************************************************************************)
(* The harnesses of the two pure functions: the argument is drawn by the   *)
(* initial state, the one action is the call.                              *)
(***************************************************************************)
Extract ==
    /\ fields = <<>>
    /\ fields' = <<parse_text(text)>>
    /\ UNCHANGED <<text, encIn, encOut, ui>>

ExtractInit(texts) ==
    /\ text \in texts
    /\ fields = <<>> /\ encIn = <<>> /\ encOut = <<>>
    /\ UiInit

SpecIban == ExtractInit(IbanTexts) /\ [][Extract]_vars
SpecAmount == ExtractInit(AmountTexts) /\ [][Extract]_vars
SpecCurrency == ExtractInit(CurrencyTexts) /\ [][Extract]_vars
SpecReference == ExtractInit(RefTexts) /\ [][Extract]_vars

EncAmounts ==
    {ZeroAmount,
     Amt(FALSE, <<"2", "5", "0">>, <<"0", "0", "0">>),
     Amt(FALSE, <<"0">>, <<"0", "0", "1">>),
     Amt(FALSE, <<"9">>, <<"9", "9", "6">>),
     Amt(FALSE, <<"1", "2">>, <<"3", "4", "0">>),
     Amt(TRUE, <<"1">>, <<"5", "0", "0">>)}

EncInputs ==
    [iban     : {<<>>, <<"S", "K", "*">>,
                 <<"C", "Z", "6", "5", "0", "8", "0", "0", "0", "0", "0", "0",
                   "1", "9", "2", "0", "0", "0", "1", "4", "5", "3", "9", "9">>},
     amount   : EncAmounts,
     currency : {<<>>, EUR, CZK},
     vs       : {<<>>, <<"2", "0", "2", "3", "0", "0", "1">>},
     msg      : {<<>>, <<"i", "n", "v", "o", "i", "c", "e">>, <<"K", "c_caron", " ", "*">>}]

Encode ==
    /\ encOut = <<>>
    /\ encOut' = <<generate_qr_platba(encIn[1].iban, encIn[1].amount,
                                      encIn[1].currency, encIn[1].vs, encIn[1].msg)>>
    /\ UNCHANGED <<text, fields, encIn, ui>>

EncodeInit ==
    /\ encIn \in {<<i>> : i \in EncInputs}
    /\ encOut = <<>> /\ text = <<>> /\ fields = <<>>
    /\ UiInit

SpecEncode == EncodeInit /\ [][Encode]_vars

(***************************************************************************)
(* Properties.  The patterns are restated here position by position,       *)
(* without the matcher: what a match is, not how one is found.             *)
(***************************************************************************)
InText(txt, p) == p >= 1 /\ p <= Len(txt)

Least(S) == CHOOSE x \in S : \A y \in S : x <= y

\* lit occurs at p, letter case ignored
LiteralAt(txt, p, lit) ==
    /\ p >= 1 /\ p + Len(lit) - 1 <= Len(txt)
    /\ \A i \in 1..Len(lit) : UpperChar(txt[p + i - 1]) = UpperChar(lit[i])

OccursIgnoringCase(txt, lit) == \E p \in 1..Len(txt) : LiteralAt(txt, p, lit)

DigitsAt(txt, p, n) == \A i \in 0..(n - 1) : InText(txt, p + i) /\ txt[p + i] \in Digit

(* ---- C3 ---- *)
Segment(key, value) == key \o <<":">> \o value \o <<"*">>

\* digits, a dot, two digits
TwoFractionalDigits(str) ==
    /\ Len(str) >= 4
    /\ str[Len(str) - 2] = "."
    /\ \A i \in 1..Len(str) : i # Len(str) - 2 => str[i] \in Digit

\* C3: generate_qr_platba returns "SPD*1.0*" followed by the segments ACC, AM, CC,
\* MSG, X-VS in this order, each ended by "*": ACC always, AM (the amount with two
\* fractional digits) iff amount > 0, CC iff the currency is not empty, MSG (the
\* note in upper case) iff the note is not empty, X-VS iff the reference is not
\* empty.
Thm_C3_PlatbaFormat ==
    encOut # <<>> =>
        LET in == encIn[1]
        IN  /\ encOut[1] =
                 <<"S", "P", "D", "*", "1", ".", "0", "*">>
                 \o Segment(<<"A", "C", "C">>, in.iban)
                 \o (IF Positive(in.amount)
                     THEN Segment(<<"A", "M">>, Format2f(in.amount)) ELSE <<>>)
                 \o (IF in.currency # <<>>
                     THEN Segment(<<"C", "C">>, in.currency) ELSE <<>>)
                 \o (IF in.msg # <<>>
                     THEN Segment(<<"M", "S", "G">>, Upper(in.msg)) ELSE <<>>)
                 \o (IF in.vs # <<>>
                     THEN Segment(<<"X", "-", "V", "S">>, in.vs) ELSE <<>>)
            /\ Positive(in.amount) => TwoFractionalDigits(Format2f(in.amount))

\* the spec's example with amount 0 and no reference: AM and X-VS are left out
Wit_C3_NoAmountNoReference ==
    /\ encOut # <<>>
    /\ encIn[1].amount = ZeroAmount
    /\ encIn[1].vs = <<>>
    /\ encIn[1].msg = <<"i", "n", "v", "o", "i", "c", "e">>
    /\ encOut[1] = <<"S", "P", "D", "*", "1", ".", "0", "*", "A", "C", "C", ":",
                     "S", "K", "*", "*", "C", "C", ":", "C", "Z", "K", "*",
                     "M", "S", "G", ":", "I", "N", "V", "O", "I", "C", "E", "*">>

(* ---- C4 ---- *)
\* the characters an identifier with the given separators occupies: two letters,
\* two digits, then five blocks of four digits, block k preceded by one
\* whitespace character iff gaps[k] = 1
IdentifierShape(prefix, gaps) ==
    <<{prefix[1]}, {prefix[2]}, Digit, Digit>>
    \o Flatten([k \in 1..5 |->
                  (IF gaps[k] = 1 THEN <<Space>> ELSE <<>>)
                  \o <<Digit, Digit, Digit, Digit>>])

IdentifierAt(txt, p, prefix, gaps) ==
    LET shape == IdentifierShape(prefix, gaps)
    IN  /\ p + Len(shape) - 1 <= Len(txt)
        /\ \A i \in 1..Len(shape) : txt[p + i - 1] \in shape[i]

Identifiers(txt) ==
    {occ \in (1..Len(txt)) \X {SK, CZ} \X [1..5 -> {0, 1}] :
        IdentifierAt(txt, occ[1], occ[2], occ[3])}

\* the first identifier of txt, its whitespace removed
FirstIdentifier(txt) ==
    LET first == Least({occ[1] : occ \in Identifiers(txt)})
        occ   == CHOOSE o \in Identifiers(txt) : o[1] = first
        len   == Len(IdentifierShape(occ[2], occ[3]))
    IN  SelectSeq(SubSeq(txt, first, first + len - 1), LAMBDA c : c \notin Space)

\* C4: for a text that contains an account identifier, parse_text returns the
\* identifier with all internal whitespace removed: 24 characters, none of them
\* whitespace, the prefix kept; for a text that contains none it returns "".
Cex_C4_IdentifierWithoutWhitespace ==
    fields # <<>> =>
        IF Identifiers(text) # {}
        THEN /\ fields[1].iban = FirstIdentifier(text)
             /\ Len(fields[1].iban) = 24
             /\ \A i \in 1..Len(fields[1].iban) : fields[1].iban[i] \notin Space
        ELSE fields[1].iban = <<>>

(* ---- C5 ---- *)
Markers == {EUR, <<"euro">>, KC, CZK}

\* n digits, a comma or a dot, two digits, from position p on
NumberAt(txt, p, n) ==
    /\ p >= 1 /\ p + n + 2 <= Len(txt)
    /\ DigitsAt(txt, p, n)
    /\ txt[p + n] \in {",", "."}
    /\ DigitsAt(txt, p + n + 1, 2)

\* the value of the number at p
NumberValue(txt, p, n) ==
    Amt(FALSE, StripZeros(SubSeq(txt, p, p + n - 1)),
        SubSeq(txt, p + n + 1, p + n + 2) \o <<"0">>)

\* <<p, n>>: a number at p, at most one whitespace character, a marker
NumberThenMarker(txt) ==
    {o \in {p \in 1..Len(txt) : txt[p] \in Digit} \X (1..10) :
        /\ NumberAt(txt, o[1], o[2])
        /\ \E w \in {0, 1}, m \in Markers :
              /\ w = 1 => (InText(txt, o[1] + o[2] + 3) /\ txt[o[1] + o[2] + 3] \in Space)
              /\ LiteralAt(txt, o[1] + o[2] + 3 + w, m)}

\* <<p, q>>: a marker at p that ends before q
MarkerEnds(txt) ==
    {<<o[1], o[1] + Len(o[2])>> :
        o \in {u \in (1..Len(txt)) \X Markers : LiteralAt(txt, u[1], u[2])}}

\* <<p, q, n>>: a marker at p, at most one whitespace character, a number at q
MarkerThenNumber(txt) ==
    {<<o[1][1], o[1][2] + o[2], o[3]>> :
        o \in {u \in MarkerEnds(txt) \X {0, 1} \X (1..10) :
                 /\ NumberAt(txt, u[1][2] + u[2], u[3])
                 /\ u[2] = 1 => txt[u[1][2]] \in Space}}

\* the match of a set that starts first (and is the longest of those)
FirstOf(S) ==
    CHOOSE o \in S : \A u \in S :
        o[1] < u[1] \/ (o[1] = u[1] /\ o[Len(o)] >= u[Len(u)])

ExpectedAmount(txt) ==
    LET forward  == NumberThenMarker(txt)
        backward == MarkerThenNumber(txt)
    IN  IF forward # {}
        THEN LET o == FirstOf(forward) IN NumberValue(txt, o[1], o[2])
        ELSE IF backward # {}
        THEN LET o == FirstOf(backward) IN NumberValue(txt, o[2], o[3])
        ELSE ZeroAmount

\* C5: the amount is the number of the first number-then-marker match whenever
\* one exists; only when none exists it is the number of the first
\* marker-then-number match; 0.0 when neither exists; a comma and a dot give the
\* same value; the amount is never negative.
Thm_C5_AmountOrder ==
    fields # <<>> =>
        /\ fields[1].amount = ExpectedAmount(text)
        /\ ParseAmount(ReplaceChar(text, ",", ".")) = fields[1].amount
        /\ ParseAmount(ReplaceChar(text, ".", ",")) = fields[1].amount
        /\ ~Negative(fields[1].amount)

\* a marker-then-number match starts before the first number-then-marker match
\* and has another value: the number-then-marker match is the one taken
Wit_C5_BothPatterns ==
    /\ fields # <<>>
    /\ NumberThenMarker(text) # {}
    /\ MarkerThenNumber(text) # {}
    /\ LET f == FirstOf(NumberThenMarker(text))
           r == FirstOf(MarkerThenNumber(text))
       IN  /\ r[1] < f[1]
           /\ NumberValue(text, r[2], r[3]) # NumberValue(text, f[1], f[2])
           /\ fields[1].amount = NumberValue(text, f[1], f[2])

(* ---- C6 ---- *)
\* C6: the currency is CZK iff the text contains "CZK" or "Kc" (with caron) in
\* any letter case or the extracted identifier starts with "CZ"; otherwise EUR.
Thm_C6_Currency ==
    fields # <<>> =>
        /\ fields[1].currency \in {EUR, CZK}
        /\ fields[1].currency = CZK <=>
              \/ OccursIgnoringCase(text, CZK)
              \/ OccursIgnoringCase(text, KC)
              \/ StartsWith(fields[1].iban, CZ)

\* a "CZ" identifier, no region-B marker, the amount matched with the euro sign
Wit_C6_CzIdentifierEuroAmount ==
    /\ fields # <<>>
    /\ StartsWith(fields[1].iban, CZ)
    /\ ~OccursIgnoringCase(text, CZK)
    /\ ~OccursIgnoringCase(text, KC)
    /\ \E o \in NumberThenMarker(text) :
          LiteralAt(text, o[1] + o[2] + 4, <<"euro">>)
    /\ Positive(fields[1].amount)
    /\ fields[1].currency = CZK

(* ---- C7 ---- *)
Labels ==
    {<<"V", "S">>,
     <<"V", "a", "r", "i", "a", "b", "i", "l", "n", "y", " ", "s", "y", "m", "b", "o", "l">>,
     <<"V", "a", "r", "i", "a", "b", "i", "l", "n", "y_acute", " ", "s", "y", "m", "b", "o", "l">>}

\* <<p, q>>: a label at p that ends before q
LabelEnds(txt) ==
    {<<o[1], o[1] + Len(o[2])>> :
        o \in {u \in (1..Len(txt)) \X Labels : LiteralAt(txt, u[1], u[2])}}

\* <<p, q>>: a label at p, then at most one colon, then whitespace, then a digit at q
Labeled(txt) ==
    {<<o[1][1], o[2]>> :
        o \in {u \in LabelEnds(txt) \X (1..Len(txt)) :
                 /\ txt[u[2]] \in Digit
                 /\ \E c \in {0, 1} :
                       /\ u[1][2] + c <= u[2]
                       /\ c = 1 => txt[u[1][2]] = ":"
                       /\ \A i \in (u[1][2] + c)..(u[2] - 1) : txt[i] \in Space}}

\* the digits from q on, ten at most
DigitsFrom(txt, q) ==
    LET ns == {n \in 1..10 : DigitsAt(txt, q, n)}
    IN  SubSeq(txt, q, q + (CHOOSE n \in ns : \A m \in ns : m <= n) - 1)

\* p: ten digits from p on, no word character before or after them
Standalone(txt) ==
    {p \in 1..Len(txt) :
        /\ DigitsAt(txt, p, 10)
        /\ ~(InText(txt, p - 1) /\ txt[p - 1] \in Word)
        /\ ~(InText(txt, p + 10) /\ txt[p + 10] \in Word)}

ExpectedReference(txt) ==
    LET labeled    == Labeled(txt)
        standalone == Standalone(txt)
    IN  IF labeled # {}
        THEN LET first == Least({o[1] : o \in labeled})
                 o     == CHOOSE u \in labeled : u[1] = first
             IN  DigitsFrom(txt, o[2])
        ELSE IF standalone # {}
        THEN SubSeq(txt, Least(standalone), Least(standalone) + 9)
        ELSE <<>>

\* C7: the reference is the 1-10 digits of the first labeled match when one
\* exists; only when none exists it is the first run of exactly ten digits that
\* stands alone (no letter, digit or underscore next to it); "" when neither
\* exists.  It is always empty or 1 to 10 digits.
Thm_C7_Reference ==
    fields # <<>> =>
        /\ fields[1].vs = ExpectedReference(text)
        /\ Len(fields[1].vs) <= 10
        /\ \A i \in 1..Len(fields[1].vs) : fields[1].vs[i] \in Digit

\* a standalone run of ten digits comes first, a labeled match later: the
\* labeled one is taken
Wit_C7_LabelBeatsEarlierRun ==
    /\ fields # <<>>
    /\ Labeled(text) # {}
    /\ Standalone(text) # {}
    /\ Least(Standalone(text)) < Least({o[1] : o \in Labeled(text)})
    /\ fields[1].vs # SubSeq(text, Least(Standalone(text)), Least(Standalone(text)) + 9)
    /\ fields[1].vs # <<>>

(* ---- the script ---- *)
Count(msgs, level) == Len(SelectSeq(msgs, LAMBDA m : m.level = level))

\* C1: a submission with an empty identifier reports an error and calls neither
\* encoder, whichever country is selected: no payload, no QR code.
Thm_C1_EmptyIdentifierBlocks ==
    (run.submitted /\ run.form.iban = <<>>) =>
        /\ run.msgs = <<Msg("error", 177)>>
        /\ run.calls = <<>>
        /\ run.qr_image = <<>>

\* the Czech invoice selected, the form submitted with an empty identifier
Wit_C1_EmptyIdentifierCzech ==
    /\ run.submitted
    /\ run.form.iban = <<>>
    /\ run.country = 1
    /\ Count(run.msgs, "error") = 1

\* C2: with a non-empty identifier the selection alone decides the encoder
\* (Slovak: generate_pay_by_square, Czech: generate_qr_platba); a warning is
\* emitted exactly when the identifier's prefix disagrees with the selection; the
\* run leaves the selection as it was; with the Czech invoice selected a payload
\* is always produced and rendered.
Thm_C2_SelectionDecides ==
    (run.submitted /\ run.form.iban # <<>>) =>
        /\ run.calls = <<IF run.selected = 0 THEN "generate_pay_by_square"
                         ELSE "generate_qr_platba">>
        /\ Count(run.msgs, "warning") =
              IF StartsWith(run.form.iban, IF run.selected = 0 THEN SK ELSE CZ)
              THEN 0 ELSE 1
        /\ run.country = run.selected
        /\ country = run.selected
        /\ run.selected = 1 => (run.qr_image # <<>> /\ run.qr_image[1] # <<>>)

\* the Czech invoice selected and an "SK" identifier submitted: a warning, and
\* the payload of generate_qr_platba rendered
Wit_C2_SkIdentifierCzechSelected ==
    /\ run.submitted
    /\ StartsWith(run.form.iban, SK)
    /\ run.selected = 1
    /\ Count(run.msgs, "warning") = 1
    /\ run.calls = <<"generate_qr_platba">>
    /\ run.qr_image # <<>>

\* C8: when pay_by_square.generate raises, the failure is reported exactly once,
\* nothing is rendered, the encoder is called once, and a QR code only ever
\* comes from a submission.
Cex_C8_FailureReportedOnce ==
    /\ run.raised =>
          /\ Count(run.msgs, "error") = 1
          /\ run.qr_image = <<>>
          /\ run.calls = <<"generate_pay_by_square">>
    /\ run.qr_image # <<>> => run.submitted

\* C9: parse_text runs exactly once for an uploaded document; the later runs of
\* the script for the same upload do not run it again.
Cex_C9_ExtractorRunsOnce == extract_runs <= 1

\* what lines 123-142 are to leave in the session state for a document
PageText(image) == IF image.ocr_ok THEN image.text ELSE <<>>

FullText(doc) ==
    Flatten([i \in 1..Len(doc.images) |-> PageText(doc.images[i]) \o <<"\n">>])

ExpectedSession ==
    [doc \in Docs |->
        IF doc.images = <<>> \/ Strip(FullText(doc)) = <<>>
        THEN DefaultFields
        ELSE parse_text(FullText(doc))]

\* C10: the four session fields are those of the document processed most
\* recently: parse_text of its pages' texts, or the defaults when it could not be
\* processed or gave no text (and the defaults before any document).
Thm_C10_SessionOfLatestDocument ==
    session_state = IF last_doc = <<>> THEN DefaultFields
                    ELSE ExpectedSession[last_doc[1]]

\* a document with an identifier was processed, then one that cannot be
\* processed: the session state is back at the defaults
Wit_C10_FailedAfterExtracted ==
    /\ before_upload.iban # <<>>
    /\ last_doc # <<>>
    /\ last_doc[1].images = <<>>
    /\ session_state = DefaultFields

====
